---- MODULE Spec2Model ----
(***************************************************************************)
(* A state-machine model of python/triton/runtime/autotuner.py: the        *)
(* BaseAutotuner measurement harness, pruning and key extraction, and the  *)
(* run loops of Autotuner (the "default", exhaustive policy),              *)
(* StepwiseAutotuner and ConfidenceAutotuner.  One tuner instance is       *)
(* driven by a single thread; a run is a sequence of steps of that thread. *)
(***************************************************************************)
EXTENDS Integers, Sequences, FiniteSets, TLC

(***************************************************************************)
(* Bounds of the model.                                                    *)
(***************************************************************************)
\* timings and elapsed times range over 1..MaxTime (milliseconds)
MaxTime == 2
\* a buffer's content ranges over 0..MaxBuf, 0 being the zero buffer
MaxBuf == 1
\* the benchmarker calls the closure between 1 and MaxBenchCalls times
MaxBenchCalls == 2
\* the min_try hyper-parameter of the stepwise tuners of the model
MinTry == 1
\* the launches of a run are counted up to LaunchCap ("many")
LaunchCap == 2
\* an epsilon is followed through MaxDecays halvings
MaxDecays == 2
\* a sample list of the confidence policy is followed up to MaxSamples samples
MaxSamples == 2

Times == 1..MaxTime
\* float("inf"): above every finite time
Inf == MaxTime + 1
BufVals == 0..MaxBuf

(***************************************************************************)
(* Config objects.  A config is identified by its index (object identity); *)
(* only the names of its meta-parameters matter to the tuner.              *)
(***************************************************************************)
ConfigIds == {1, 2, 3}
\* "no Config": a cache miss, an undecided key
NoConfig == 0

Config(c) ==
  [kwargs   |-> IF c = 3 THEN {"BLOCK", "SPLIT"} ELSE {"BLOCK"},
   maxnreg  |-> (c = 3),
   pre_hook |-> (c = 2)]

HintNames ==
  {"num_warps", "num_ctas", "num_stages", "num_buffers_warp_spec",
   "num_consumer_groups", "reg_dec_producer", "reg_inc_consumer"}

\* the names of Config.all_kwargs(): kwargs plus the hints that are not None
all_kwargs(c) ==
  Config(c).kwargs \cup HintNames
    \cup (IF Config(c).maxnreg THEN {"maxnreg"} ELSE {})

(***************************************************************************)
(* Call arguments.  B is a tensor (its dtype is what the key sees, its     *)
(* content is the variable buf), N and M are scalars; N is the only name   *)
(* in the tunable's key list.                                              *)
(***************************************************************************)
arg_names == <<"B", "N", "M">>
keys == <<"N">>
TensorArgs == {"B"}

ArgSet ==
  {[B |-> "float16", N |-> 1, M |-> 1],
   [B |-> "float16", N |-> 1, M |-> 2],
   [B |-> "float32", N |-> 1, M |-> 1]}
\* self.nargs = None
NoArgs == [B |-> "None", N |-> 0, M |-> 0]

\* the names of the call's keyword arguments
KwargSets == {{}, {"BLOCK"}, {"SPLIT"}, {"num_warps"}}
\* those the runs of the stepwise and confidence tuners are given
FewKwargSets == {{}, {"BLOCK"}}

Range(s) == {s[i] : i \in 1..Len(s)}

\* a variant of _get_key without the dtype strings of lines 242-244
_get_keyNoDtype(a) ==
  LET named == SelectSeq(keys, LAMBDA k : k \in Range(arg_names))
  IN  [i \in 1..Len(named) |-> a[named[i]]]

_get_key(a) ==
  LET named == SelectSeq(keys, LAMBDA k : k \in Range(arg_names))
      vals  == [i \in 1..Len(named) |-> a[named[i]]]
      tens  == SelectSeq(arg_names, LAMBDA n : n \in TensorArgs)
      dts   == [i \in 1..Len(tens) |-> a[tens[i]]]
  IN  vals \o dts

AllKeys == {_get_key(a) : a \in ArgSet}

(***************************************************************************)
(* The tuner as constructed: BaseAutotuner.__init__ and the subclasses'.   *)
(***************************************************************************)
NoEarlyPrune == [set |-> FALSE, keep |-> {}]
NoPerfModel == [set |-> FALSE, est |-> [c \in ConfigIds |-> 0]]
\* self.configs_top_k = 1.0
DefaultTopK == [isfloat |-> TRUE, num |-> 1, den |-> 1]

\* the candidate lists a tunable is built with
ConfigLists == {<<1>>, <<1, 2>>, <<1, 2, 3>>}

\* reset_to_zero / restore_value / user hooks
HookSetups ==
  {[reset_to_zero |-> {}, restore_value |-> {}, pre_hook |-> FALSE, post_hook |-> FALSE],
   [reset_to_zero |-> {"B"}, restore_value |-> {}, pre_hook |-> FALSE, post_hook |-> FALSE],
   [reset_to_zero |-> {}, restore_value |-> {"B"}, pre_hook |-> FALSE, post_hook |-> FALSE],
   [reset_to_zero |-> {"B"}, restore_value |-> {"B"}, pre_hook |-> FALSE, post_hook |-> FALSE],
   [reset_to_zero |-> {}, restore_value |-> {}, pre_hook |-> TRUE, post_hook |-> TRUE],
   [reset_to_zero |-> {}, restore_value |-> {"B"}, pre_hook |-> TRUE, post_hook |-> FALSE]}

NoHooks == [reset_to_zero |-> {}, restore_value |-> {}, pre_hook |-> FALSE, post_hook |-> FALSE]

\* prune_configs_by
NoPruning ==
  [early_config_prune |-> NoEarlyPrune, perf_model |-> NoPerfModel,
   configs_top_k |-> DefaultTopK]

PruneSetups ==
  {[early_config_prune |-> NoEarlyPrune, perf_model |-> NoPerfModel,
    configs_top_k |-> DefaultTopK],
   [early_config_prune |-> [set |-> TRUE, keep |-> {2, 3}], perf_model |-> NoPerfModel,
    configs_top_k |-> DefaultTopK],
   [early_config_prune |-> NoEarlyPrune,
    perf_model |-> [set |-> TRUE, est |-> [c \in ConfigIds |-> IF c = 1 THEN 3 ELSE 1]],
    configs_top_k |-> [isfloat |-> FALSE, num |-> 2, den |-> 1]]}

TopTwo ==
  [early_config_prune |-> NoEarlyPrune,
   perf_model |-> [set |-> TRUE, est |-> [c \in ConfigIds |-> IF c = 1 THEN 3 ELSE 1]],
   configs_top_k |-> [isfloat |-> FALSE, num |-> 2, den |-> 1]]

\* the candidates and pruning of the stepwise and confidence tuners of the model
LoopSetups ==
  {[configs |-> <<1, 2>>, prune |-> NoPruning],
   [configs |-> <<1, 2, 3>>, prune |-> TopTwo]}

Tuner(policy, cs, h, p, ratio) ==
  [policy             |-> policy,
   configs            |-> cs,
   reset_to_zero      |-> h.reset_to_zero,
   restore_value      |-> h.restore_value,
   user_defined_pre_hook  |-> h.pre_hook,
   user_defined_post_hook |-> h.post_hook,
   early_config_prune |-> p.early_config_prune,
   perf_model         |-> p.perf_model,
   configs_top_k      |-> p.configs_top_k,
   min_try            |-> MinTry,
   ratio              |-> ratio]


(***************************************************************************)
(* State.                                                                  *)
(***************************************************************************)
VARIABLES
  tuner,            \* the constructed tuner (never changes)
  cache,            \* Autotuner.cache: key -> Config, NoConfig when absent
  tcache,           \* Stepwise/Confidence _tcache: key -> payload
  nargs,            \* self.nargs
  restore_copies,   \* self.restore_copies, the sidecar of clones
  buf,              \* the content of buffer B
  pc,               \* where the running thread is
  kwargs,           \* the names of the keyword arguments of the current run
  key,              \* the key of the current run
  pruned_configs,   \* exhaustive: the pruned candidates of this run
  timings,          \* exhaustive: the timing triples collected so far
  config,           \* the config being benchmarked or launched
  calls,            \* completed closure calls of the current do_bench
  exc,              \* what the last kernel launch raised ("None": it returned)
  used_cached_result, \* exhaustive: the run found its key in the cache
  lcache,           \* stepwise/confidence: the run's local alias `cache`
  isconfig,         \* stepwise/confidence: the local isconfig
  \* observations of the current run (reset when a run starts)
  benched,          \* per config, the do_bench invocations
  launched,         \* the set of configs launched outside the benchmarker
  launches,         \* how many such launches, counted up to LaunchCap
  outcome,          \* "running", "return" or the exception that ended the run
  raised_in,        \* where that exception came from
  kc,               \* the events of the current/last call of the closure
  kc_result,        \* how that call ended: "-", "return" or the exception
  buf_cloned,       \* B as the tuner's pre_hook left it in that call
  last_hook,        \* the last call of a tuner hook in this run
  first_run,        \* no run had started for the key of this run before it
  is_explore,       \* epsilon: the local is_explore
  timecost,         \* epsilon: the local timecost, 0 while nothing was measured
  \* history of the tuner
  seen,             \* the keys for which a run has started
  failed_ever       \* per key, the configs that were ever marked failed

vars ==
  <<tuner, cache, tcache, nargs, restore_copies, buf, pc, kwargs, key,
    pruned_configs, timings, config, calls, exc, used_cached_result, lcache,
    isconfig, benched, launched, launches, outcome, raised_in, kc, kc_result,
    buf_cloned, last_hook, first_run, is_explore, timecost, seen, failed_ever>>

NoKey == <<>>
SoftErrors == {"OutOfResources", "CompileTimeAssertionFailure"}
\* what a kernel launch can raise; "RuntimeError" stands for any other exception
LaunchErrors == SoftErrors \cup {"RuntimeError"}
\* what fn.run returns: a truthy kernel object, or a falsy value that is not None
RetVals == {"truthy", "falsy"}

\* a _tcache payload: defaultdict(list) of samples (a failed config has the value
\* None), or a decided Config
EmptyDict ==
  [kind |-> "dict", config |-> NoConfig, order |-> <<>>,
   samples |-> [c \in ConfigIds |-> <<>>], failed |-> {}]
Decided(c) ==
  [kind |-> "config", config |-> c, order |-> <<>>,
   samples |-> [d \in ConfigIds |-> <<>>], failed |-> {}]

(***************************************************************************)
(* BaseAutotuner.prune_configs                                             *)
(***************************************************************************)
RECURSIVE SortedBy(_, _)
\* sorted(est_timing.keys(), key=...): a stable sort by predicted time
SortedBy(s, est) ==
  IF s = <<>> THEN <<>>
  ELSE LET n    == Len(s)
           init == SortedBy(SubSeq(s, 1, n - 1), est)
           x    == s[n]
           le   == SelectSeq(init, LAMBDA c : est[c] <= est[x])
           gt   == SelectSeq(init, LAMBDA c : est[c] > est[x])
       IN  le \o <<x>> \o gt

\* a variant of prune_configs that scales a float top_k by the number of
\* configs left after early pruning
prune_configsScaledByPruned(kw) ==
  LET early  == tuner.early_config_prune
      pruned == IF early.set
                THEN SelectSeq(tuner.configs, LAMBDA c : c \in early.keep)
                ELSE tuner.configs
      tk     == tuner.configs_top_k
      top_k  == IF tk.isfloat /\ tk.num <= tk.den
                THEN (Len(pruned) * tk.num) \div tk.den
                ELSE tk.num
  IN  IF tuner.perf_model.set /\ Len(pruned) > top_k
      THEN SubSeq(SortedBy(pruned, tuner.perf_model.est), 1, top_k)
      ELSE pruned

\* prune_configs, lines 203-223
prune_configs(kw) ==
  LET early  == tuner.early_config_prune
      pruned == IF early.set
                THEN SelectSeq(tuner.configs, LAMBDA c : c \in early.keep)
                ELSE tuner.configs
      tk     == tuner.configs_top_k
      top_k  == IF tk.isfloat /\ tk.num <= tk.den
                THEN (Len(tuner.configs) * tk.num) \div tk.den
                ELSE tk.num
  IN  IF tuner.perf_model.set /\ Len(pruned) > top_k
      THEN SubSeq(SortedBy(pruned, tuner.perf_model.est), 1, top_k)
      ELSE pruned

(***************************************************************************)
(* The tuner's hooks: BaseAutotuner.__init__, lines 70-100.                *)
(***************************************************************************)
PreHookKind ==
  IF tuner.user_defined_pre_hook THEN "user"
  ELSE IF tuner.reset_to_zero # {} \/ tuner.restore_value # {} THEN "default"
  ELSE "lambda"

PostHookKind ==
  IF tuner.user_defined_post_hook THEN "user"
  ELSE IF tuner.restore_value # {} THEN "default"
  ELSE "lambda"

NoCopies == [n \in {} |-> 0]
\* the attribute restore_copies does not exist before the default pre_hook sets it
Unset == [set |-> FALSE, copies |-> NoCopies]

\* a variant of Zeroed without the zero_() loop
ZeroedNot(b) == b

\* B after the zeroing loop of _pre_hook
Zeroed(b) == IF "B" \in tuner.reset_to_zero THEN 0 ELSE b

\* the clones _pre_hook takes (of the buffers as zeroed)
Clones(b) == [set |-> TRUE, copies |-> [n \in tuner.restore_value |-> b]]

\* self.pre_hook(full_nargs, reset_only)
pre_hook(reset_only) ==
  IF PreHookKind = "default"
  THEN /\ buf' = Zeroed(buf)
       /\ restore_copies' = IF reset_only THEN restore_copies ELSE Clones(buf')
  ELSE UNCHANGED <<buf, restore_copies>>

\* the default _post_hook reads self.restore_copies[name]
PostHookRaises ==
  /\ PostHookKind = "default"
  /\ \/ ~restore_copies.set
     \/ ~(tuner.restore_value \subseteq DOMAIN restore_copies.copies)

\* a variant of Restored that copies nothing back
RestoredNot(b) == b

\* B after the copy-back loop of _post_hook
Restored(b) == IF "B" \in tuner.restore_value THEN restore_copies.copies["B"] ELSE b

\* restore_copies after _post_hook
Cleared == [set |-> TRUE, copies |-> NoCopies]

\* self.post_hook(full_nargs, exception=e), when it does not raise
post_hook ==
  IF PostHookKind = "default" /\ ~PostHookRaises
  THEN /\ buf' = Restored(buf)
       /\ restore_copies' = Cleared
  ELSE UNCHANGED <<buf, restore_copies>>


(***************************************************************************)
(* Steps shared by the policies.                                           *)
(***************************************************************************)
NoBench == [c \in ConfigIds |-> 0]
Count(n) == IF n < LaunchCap THEN n + 1 ELSE LaunchCap

\* the frame of a step that leaves the tuner's persistent state alone
KeepTuner == UNCHANGED <<tuner, cache, tcache, failed_ever>>

\* the frame of a step inside a run
InRun == UNCHANGED <<seen, first_run, is_explore, timecost>>

\* a run starts: self.nargs = dict(zip(self.arg_names, args))
StartRun(a, kw) ==
  /\ pc = "idle"
  /\ nargs' = a
  /\ kwargs' = kw
  /\ outcome' = "running"
  /\ UNCHANGED <<benched, launched, launches, raised_in, kc, kc_result,
                 buf_cloned, last_hook, calls, exc, timings>>

\* the locals of a run are dead once it has ended
DropLocals ==
  /\ timings' = <<>>
  /\ calls' = 0
  /\ UNCHANGED config
  /\ lcache' = EmptyDict
  /\ isconfig' = FALSE

\* an exception e leaves run: self.nargs keeps the arguments
Raise(e, where) ==
  /\ pc' = "done"
  /\ outcome' = e
  /\ raised_in' = where
  /\ UNCHANGED nargs
  /\ DropLocals

\* run returns: self.nargs = None
Return ==
  /\ pc' = "done"
  /\ outcome' = "return"
  /\ nargs' = NoArgs
  /\ UNCHANGED raised_in
  /\ DropLocals

\* control is back in the caller of run: what the run left on its frame is gone,
\* the tuner keeps cache, _tcache, nargs, restore_copies and the buffer
EndRun ==
  /\ pc = "done"
  /\ pc' = "idle"
  /\ kwargs' = {}
  /\ key' = NoKey
  /\ pruned_configs' = <<>>
  /\ exc' = "None"
  /\ used_cached_result' = TRUE
  /\ benched' = NoBench
  /\ launched' = {}
  /\ launches' = 0
  /\ outcome' = "-"
  /\ raised_in' = "-"
  /\ kc' = <<>>
  /\ kc_result' = "-"
  /\ buf_cloned' = 0
  /\ last_hook' = "-"
  /\ first_run' = FALSE
  /\ is_explore' = FALSE
  /\ timecost' = 0
  /\ config' = NoConfig
  /\ KeepTuner
  /\ UNCHANGED <<nargs, restore_copies, buf, timings, calls, lcache, isconfig, seen>>

(***************************************************************************)
(* Autotuner.run (the "default" policy) and BaseAutotuner._bench.          *)
(***************************************************************************)
\* a variant of LexLess that compares the medians only
LexLessMedian(s, t) == s[1] < t[1]

\* the order of Python lists: [median, p20, p80] compared element by element
LexLess(s, t) ==
  \/ s[1] < t[1]
  \/ s[1] = t[1] /\ s[2] < t[2]
  \/ s[1] = t[1] /\ s[2] = t[2] /\ s[3] < t[3]

\* a variant of MinTiming that takes the first config benchmarked
MinTimingFirst(cs, ts) == cs[1]

\* builtins.min(timings, key=timings.get): the first config, in the order of the
\* dict, whose [median, p20, p80] list is the least
MinTiming(cs, ts) ==
  LET i == CHOOSE i \in 1..Len(cs) :
             /\ \A j \in 1..Len(cs) : ~LexLess(ts[j], ts[i])
             /\ \A j \in 1..(i - 1) : LexLess(ts[i], ts[j])
  IN  cs[i]

\* what the benchmarker can return: [median, p20, p80]
Triples == {t \in Times \X Times \X Times : t[2] <= t[1] /\ t[1] <= t[3]}
InfTriple == <<Inf, Inf, Inf>>

\* a variant of MultipleConfigs that also tunes a single candidate
MultipleConfigsOrOne == Len(tuner.configs) >= 1

\* line 284: len(self.configs) > 1
MultipleConfigs == Len(tuner.configs) > 1

\* a variant of Cached that never finds the key
CachedNever(k) == cache[k] # cache[k]

\* line 286: key in self.cache
Cached(k) == cache[k] # NoConfig

\* Autotuner.run, lines 282-303
Run(a, kw) ==
  /\ tuner.policy = "default"
  /\ StartRun(a, kw)
  /\ IF MultipleConfigs
     THEN /\ key' = _get_key(a)
          /\ seen' = seen \cup {key'}
          /\ first_run' = (key' \notin seen)
          /\ IF ~Cached(key')
             THEN /\ used_cached_result' = FALSE
                  /\ pruned_configs' = prune_configs(kw)
                  /\ config' = NoConfig
                  /\ pc' = "bench"
             ELSE /\ used_cached_result' = TRUE
                  /\ pruned_configs' = <<>>
                  /\ config' = cache[key']
                  /\ pc' = "launch"
     ELSE /\ key' = NoKey
          /\ UNCHANGED <<seen, first_run>>
          /\ used_cached_result' = TRUE
          /\ pruned_configs' = <<>>
          /\ config' = tuner.configs[1]
          /\ pc' = "launch"
  /\ KeepTuner
  /\ UNCHANGED <<restore_copies, buf, lcache, isconfig, is_explore, timecost>>

\* _bench, lines 164-172 and the call of do_bench at line 193
Bench ==
  /\ pc = "bench"
  /\ Len(timings) < Len(pruned_configs)
  /\ LET c == pruned_configs[Len(timings) + 1] IN
       IF kwargs \cap Config(c).kwargs # {}
       THEN /\ Raise("ConflictingMetaParameters", "_bench")
            /\ UNCHANGED benched
       ELSE /\ config' = c
            /\ benched' = [benched EXCEPT ![c] = @ + 1]
            /\ calls' = 0
            /\ pc' = "do_bench"
            /\ UNCHANGED <<nargs, outcome, raised_in, timings, lcache, isconfig>>
  /\ KeepTuner
  /\ InRun
  /\ kc' = <<>>
  /\ kc_result' = "-"
  /\ buf_cloned' = 0
  /\ UNCHANGED <<restore_copies, buf, kwargs, key, pruned_configs, exc,
                 used_cached_result, launched, launches, last_hook>>

\* the benchmarker calls kernel_call: lines 175-176, config.pre_hook
KernelCall ==
  /\ pc = "do_bench"
  /\ calls < MaxBenchCalls
  /\ kc' = IF Config(config).pre_hook THEN <<"config.pre_hook">> ELSE <<>>
  /\ kc_result' = "-"
  /\ exc' = "None"
  /\ pc' = "kc_pre_hook"
  /\ KeepTuner
  /\ InRun
  /\ UNCHANGED <<nargs, restore_copies, buf, kwargs, key, pruned_configs, timings,
                 config, calls, used_cached_result, lcache, isconfig, benched,
                 launched, launches, outcome, raised_in, buf_cloned, last_hook>>

\* kernel_call, line 177: self.pre_hook(full_nargs)
KcPreHook ==
  /\ pc = "kc_pre_hook"
  /\ pre_hook(FALSE)
  /\ kc' = Append(kc, "pre_hook(reset_only=False)")
  /\ last_hook' = "pre_hook(reset_only=False)"
  /\ buf_cloned' = buf'
  /\ pc' = "kc_run"
  /\ KeepTuner
  /\ InRun
  /\ UNCHANGED <<nargs, kwargs, key, pruned_configs, timings, config, calls, exc,
                 used_cached_result, lcache, isconfig, benched, launched, launches,
                 outcome, raised_in, kc_result>>

\* kernel_call, lines 178-183: self.fn.run(*args, **current)
KcRun ==
  /\ pc = "kc_run"
  /\ \/ /\ exc' = "None"
        /\ buf' \in BufVals
     \/ /\ exc' \in SoftErrors
        /\ UNCHANGED buf
     \/ /\ exc' = "RuntimeError"
        /\ buf' \in BufVals
  /\ kc' = Append(kc, "fn.run")
  /\ pc' = "kc_post_hook"
  /\ KeepTuner
  /\ InRun
  /\ UNCHANGED <<nargs, restore_copies, kwargs, key, pruned_configs, timings, config,
                 calls, used_cached_result, lcache, isconfig, benched, launched,
                 launches, outcome, raised_in, kc_result, buf_cloned, last_hook>>

\* a variant of KcOutcome without the `raise` of line 186
KcOutcomeSwallow ==
  IF PostHookRaises THEN "AttributeError"
  ELSE IF exc \in SoftErrors THEN exc
  ELSE "return"

\* how kernel_call ends: an exception of post_hook replaces the launch's (the bare
\* raise in the finally clause re-raises the exception in flight)
KcOutcome ==
  IF PostHookRaises THEN "AttributeError"
  ELSE IF exc # "None" THEN exc
  ELSE "return"

\* a variant of PostHookArg that never passes the exception on
PostHookArgNone == "None"

\* lines 185 and 190: the exception argument post_hook is called with
PostHookArg == exc

\* a variant of Caught that forgets CompileTimeAssertionFailure
CaughtOutOfResources(e) == e = "OutOfResources"

\* a variant of Caught that takes every exception for a soft failure
CaughtAny(e) == TRUE

\* line 194: except (OutOfResources, CompileTimeAssertionFailure)
Caught(e) == e \in SoftErrors

\* kernel_call, lines 183-190, and what _bench and do_bench make of its end
KcPostHook ==
  /\ pc = "kc_post_hook"
  /\ post_hook
  /\ kc' = Append(kc, "post_hook(" \o PostHookArg \o ")")
  /\ last_hook' = "post_hook(" \o PostHookArg \o ")"
  /\ kc_result' = KcOutcome
  /\ IF KcOutcome = "return"
     THEN /\ calls' = calls + 1
          /\ pc' = "do_bench"
          /\ UNCHANGED <<nargs, timings, config, lcache, isconfig, outcome, raised_in>>
     ELSE IF Caught(KcOutcome)
     THEN \* _bench, lines 194-195
          /\ timings' = Append(timings, InfTriple)
          /\ calls' = 0
          /\ pc' = "bench"
          /\ UNCHANGED <<nargs, config, lcache, isconfig, outcome, raised_in>>
     ELSE Raise(KcOutcome, "kernel_call")
  /\ KeepTuner
  /\ InRun
  /\ UNCHANGED <<kwargs, key, pruned_configs, exc, used_cached_result, benched,
                 launched, launches, buf_cloned>>

\* do_bench returns the quantiles of the runtimes it measured
DoBenchReturn ==
  /\ pc = "do_bench"
  /\ calls >= 1
  /\ \E t \in Triples : timings' = Append(timings, t)
  /\ calls' = 0
  /\ pc' = "bench"
  /\ kc' = <<>>
  /\ kc_result' = "-"
  /\ buf_cloned' = 0
  /\ KeepTuner
  /\ InRun
  /\ UNCHANGED <<nargs, restore_copies, buf, kwargs, key, pruned_configs, config,
                 exc, used_cached_result, lcache, isconfig, benched, launched,
                 launches, outcome, raised_in, last_hook>>

\* Autotuner.run, lines 295-301: the best config is cached, the pre_hook resets
Select ==
  /\ pc = "bench"
  /\ Len(timings) = Len(pruned_configs)
  /\ IF pruned_configs = <<>>
     THEN \* builtins.min of an empty dict
          /\ Raise("ValueError", "min")
          /\ UNCHANGED <<cache, buf, restore_copies, last_hook>>
     ELSE /\ cache' = [cache EXCEPT ![key] = MinTiming(pruned_configs, timings)]
          /\ config' = cache'[key]
          /\ pre_hook(TRUE)
          /\ last_hook' = "pre_hook(reset_only=True)"
          /\ pc' = "launch"
          /\ UNCHANGED <<nargs, timings, calls, lcache, isconfig, outcome, raised_in>>
  /\ kc' = <<>>
  /\ kc_result' = "-"
  /\ buf_cloned' = 0
  /\ InRun
  /\ UNCHANGED <<tuner, tcache, failed_ever>>
  /\ UNCHANGED <<kwargs, key, pruned_configs, exc, used_cached_result, benched,
                 launched, launches>>

\* Autotuner.run, lines 304-319: config.pre_hook and the user-visible launch
Launch ==
  /\ pc = "launch"
  /\ tuner.policy = "default"
  /\ launched' = launched \cup {config}
  /\ launches' = Count(launches)
  /\ IF kwargs \cap all_kwargs(config) # {}
     THEN \* fn.run(*args, **kwargs, **config.all_kwargs()) repeats a keyword
          /\ Raise("TypeError", "launch")
          /\ UNCHANGED <<buf, exc>>
     ELSE \/ /\ exc' = "None"
             /\ buf' \in BufVals
             /\ Return
          \/ /\ exc' \in SoftErrors
             /\ UNCHANGED buf
             /\ Raise(exc', "launch")
          \/ /\ exc' = "RuntimeError"
             /\ buf' \in BufVals
             /\ Raise(exc', "launch")
  /\ KeepTuner
  /\ InRun
  /\ UNCHANGED <<restore_copies, kwargs, key, pruned_configs, used_cached_result,
                 benched, kc, kc_result, buf_cloned, last_hook>>

NextExhaustive ==
  \/ \E a \in ArgSet, kw \in KwargSets : Run(a, kw)
  \/ Bench
  \/ KernelCall
  \/ KcPreHook
  \/ KcRun
  \/ KcPostHook
  \/ DoBenchReturn
  \/ Select
  \/ Launch
  \/ EndRun

\* no run has started: the fields other than _tcache, and the locals of run
InitRun ==
  /\ buf = 0
  /\ cache = [k \in AllKeys |-> NoConfig]
  /\ nargs = NoArgs
  /\ restore_copies = Unset
  /\ pc = "idle"
  /\ kwargs = {}
  /\ key = NoKey
  /\ pruned_configs = <<>>
  /\ timings = <<>>
  /\ config = NoConfig
  /\ calls = 0
  /\ exc = "None"
  /\ used_cached_result = TRUE
  /\ lcache = EmptyDict
  /\ isconfig = FALSE
  /\ benched = NoBench
  /\ launched = {}
  /\ launches = 0
  /\ outcome = "-"
  /\ raised_in = "-"
  /\ kc = <<>>
  /\ kc_result = "-"
  /\ buf_cloned = 0
  /\ last_hook = "-"
  /\ first_run = FALSE
  /\ is_explore = FALSE
  /\ timecost = 0
  /\ seen = {}
  /\ failed_ever = [k \in AllKeys |-> {}]

InitCommon ==
  /\ tcache = [k \in AllKeys |-> [EmptyDict EXCEPT !.kind = "absent"]]
  /\ InitRun

\* autotune(...)(fn, "default")
InitExhaustive ==
  /\ \E cs \in ConfigLists, h \in HookSetups, p \in PruneSetups :
       /\ h = NoHooks \/ p = NoPruning
       /\ Len(cs) = 1 => p = NoPruning
       /\ Len(cs) = 3 => h = NoHooks
       /\ tuner = Tuner("default", cs, h, p, 3)
  /\ InitCommon

SpecExhaustive == InitExhaustive /\ [][NextExhaustive]_vars


(***************************************************************************)
(* StepwiseAutotuner.run                                                   *)
(***************************************************************************)
RECURSIVE Sum(_)
Sum(s) == IF s = <<>> THEN 0 ELSE s[1] + Sum(Tail(s))

\* the keys of the defaultdict after cache[config] was read for every config of cs
Touched(d, cs) ==
  [d EXCEPT !.order = @ \o SelectSeq(cs, LAMBDA c : c \notin Range(d.order))]

\* a variant of Eligible without the `cache[config] is not None` test
EligibleAny(d, cs) ==
  SelectSeq(cs, LAMBDA c : Len(d.samples[c]) < tuner.min_try)

\* a variant of Eligible without the `len(cache[config]) < self._min_try` test
EligibleUnbounded(d, cs) ==
  SelectSeq(cs, LAMBDA c : c \notin d.failed)

\* lines 370-375: the pruned configs that did not fail and have fewer than
\* min_try samples
Eligible(d, cs) ==
  SelectSeq(cs, LAMBDA c : c \notin d.failed /\ Len(d.samples[c]) < tuner.min_try)

\* lines 379-382: the entries of the dict whose value is not None
Candidates(d) == SelectSeq(d.order, LAMBDA c : c \notin d.failed)

\* sum(cache[c]) / len(cache[c]) of c is less than that of e
MeanLess(d, c, e) ==
  Sum(d.samples[c]) * Len(d.samples[e]) < Sum(d.samples[e]) * Len(d.samples[c])

\* a variant of MinMean that takes the first entry that did not fail
MinMeanFirst(d) == Candidates(d)[1]

\* min(..., key=mean): the first candidate of the least mean
MinMean(d) ==
  LET cs == Candidates(d)
      i  == CHOOSE i \in 1..Len(cs) :
              /\ \A j \in 1..Len(cs) : ~MeanLess(d, cs[j], cs[i])
              /\ \A j \in 1..(i - 1) : MeanLess(d, cs[i], cs[j])
  IN  cs[i]

\* a variant of IsDecided that never recognises a decided entry
IsDecidedNever(p) == p.kind = "Config"

\* lines 366 and 567: isinstance(cache, Config)
IsDecided(p) == p.kind = "config"

\* run, lines 361-364; self._tcache[key] makes the entry of a new key
EnterLoop(a, kw) ==
  /\ StartRun(a, kw)
  /\ key' = _get_key(a)
  /\ tcache' = [tcache EXCEPT ![key'] =
                  IF @.kind = "absent" THEN EmptyDict ELSE @]
  /\ lcache' = tcache'[key']
  /\ seen' = seen \cup {key'}
  /\ first_run' = (key' \notin seen)
  /\ pc' = "choose"
  /\ UNCHANGED <<tuner, cache, restore_copies, buf, pruned_configs, config,
                 used_cached_result, isconfig, failed_ever, is_explore, timecost>>

StepwiseRun(a, kw) ==
  /\ tuner.policy = "stepwise"
  /\ EnterLoop(a, kw)

\* the dict the local `cache` names is the one in _tcache until the key is decided
Shared(d) ==
  IF tcache[key].kind = "dict" THEN [tcache EXCEPT ![key] = d] ELSE tcache

\* the frame of the steps that choose a config
ChooseFrame ==
  UNCHANGED <<tuner, cache, restore_copies, buf, kwargs, key, pruned_configs,
              exc, used_cached_result, benched, launched, launches, kc,
              kc_result, buf_cloned, last_hook, first_run, seen, failed_ever,
              is_explore, timecost>>

\* the loop goes on to the launch with config c
Chosen(c, decided) ==
  /\ config' = c
  /\ isconfig' = decided
  /\ pc' = "launch"
  /\ UNCHANGED <<nargs, outcome, raised_in, timings, calls>>

\* run, lines 366-387: the config of this iteration
StepwiseChoose ==
  /\ tuner.policy = "stepwise"
  /\ pc = "choose"
  /\ IF IsDecided(lcache)
     THEN /\ Chosen(lcache.config, TRUE)
          /\ UNCHANGED <<tcache, lcache>>
     ELSE LET cs == prune_configs(kwargs)
              d  == Touched(lcache, cs)
          IN  IF Eligible(d, cs) # <<>>
              THEN /\ \E c \in Range(Eligible(d, cs)) : Chosen(c, FALSE)
                   /\ lcache' = d
                   /\ tcache' = Shared(d)
              ELSE IF Candidates(d) = <<>>
              THEN /\ Raise("ValueError", "min")
                   /\ tcache' = Shared(d)
              ELSE IF \E c \in Range(Candidates(d)) : d.samples[c] = <<>>
              THEN /\ Raise("ZeroDivisionError", "min")
                   /\ tcache' = Shared(d)
              ELSE /\ Chosen(MinMean(d), TRUE)
                   /\ lcache' = d
                   /\ tcache' = [tcache EXCEPT ![key] = Decided(MinMean(d))]
  /\ ChooseFrame

\* lines 412-415: the sample is recorded, or the config marked failed
Recorded(d, c, ret, t) ==
  IF ret = "truthy"
  THEN [d EXCEPT !.samples[c] = Append(@, t)]
  ELSE [d EXCEPT !.samples[c] = <<>>, !.failed = @ \cup {c}]

\* lines 388-417 (stepwise) and 613-642 (confidence): the launch of the
\* iteration, timed when the key is not decided.  These policies never call the
\* tuner's pre_hook and post_hook, so nothing of the tuner reads or writes B:
\* its content is not followed through these launches.
TimedLaunch ==
  /\ pc = "launch"
  /\ launched' = launched \cup {config}
  /\ launches' = Count(launches)
  /\ IF kwargs \cap all_kwargs(config) # {}
     THEN \* fn.run(*args, **kwargs, **config.all_kwargs()) repeats a keyword
          /\ Raise("TypeError", "launch")
          /\ UNCHANGED <<buf, exc, tcache, failed_ever>>
     ELSE \/ \E ret \in RetVals, t \in Times :
               /\ exc' = "None"
               /\ UNCHANGED buf
               /\ tcache' = IF isconfig THEN tcache
                            ELSE Shared(Recorded(lcache, config, ret, t))
               /\ failed_ever' = IF isconfig \/ ret = "truthy" THEN failed_ever
                                 ELSE [failed_ever EXCEPT ![key] = @ \cup {config}]
               /\ Return
          \/ /\ exc' = "OutOfResources"
             /\ UNCHANGED buf
             /\ tcache' = IF isconfig THEN tcache
                          ELSE Shared(Recorded(lcache, config, "None", 0))
             /\ failed_ever' = IF isconfig THEN failed_ever
                               ELSE [failed_ever EXCEPT ![key] = @ \cup {config}]
             /\ lcache' = IF isconfig THEN lcache
                          ELSE Recorded(lcache, config, "None", 0)
             /\ pc' = "choose"
             /\ UNCHANGED <<nargs, outcome, raised_in, timings, calls, config, isconfig>>
          \/ /\ exc' = "CompileTimeAssertionFailure"
             /\ UNCHANGED <<buf, tcache, failed_ever>>
             /\ Raise(exc', "launch")
          \/ /\ exc' = "RuntimeError"
             /\ UNCHANGED <<buf, tcache, failed_ever>>
             /\ Raise(exc', "launch")
  /\ InRun
  /\ UNCHANGED <<tuner, cache, restore_copies, kwargs, key, pruned_configs,
                 used_cached_result, benched, kc, kc_result, buf_cloned, last_hook>>

StepwiseLaunch ==
  /\ tuner.policy = "stepwise"
  /\ TimedLaunch

NextStepwise ==
  \/ \E a \in ArgSet, kw \in FewKwargSets : StepwiseRun(a, kw)
  \/ StepwiseChoose
  \/ StepwiseLaunch
  \/ EndRun

\* autotune(...)(fn, "stepwise")
InitStepwise ==
  /\ \E s \in LoopSetups : tuner = Tuner("stepwise", s.configs, NoHooks, s.prune, 3)
  /\ InitCommon

SpecStepwise == InitStepwise /\ [][NextStepwise]_vars

\* The stepwise tuner of three candidates without pruning, constructed with
\* min_try = 2, and run with the arguments of one key.
TwoTries == 2
OneKeyArgs == {[B |-> "float16", N |-> 1, M |-> 1]}

InitStepwiseThree ==
  /\ tuner = [Tuner("stepwise", <<1, 2, 3>>, NoHooks, NoPruning, 3)
                EXCEPT !.min_try = TwoTries]
  /\ InitCommon

NextStepwiseThree ==
  \/ \E a \in OneKeyArgs : StepwiseRun(a, {})
  \/ StepwiseChoose
  \/ StepwiseLaunch
  \/ EndRun

SpecStepwiseThree == InitStepwiseThree /\ [][NextStepwiseThree]_vars


(***************************************************************************)
(* ConfidenceAutotuner.run                                                 *)
(***************************************************************************)
RECURSIVE SumSq(_)
SumSq(s) == IF s = <<>> THEN 0 ELSE s[1] * s[1] + SumSq(Tail(s))

\* A boundary is a float: the fraction num/den when lvl = 0, and otherwise
\* -inf (lvl -2), -sys.float_info.max (-1), sys.float_info.max (1) or inf (2);
\* a finite sample time added to one of these four is absorbed by it.
Finite(n, d) == [lvl |-> 0, num |-> n, den |-> d]
Huge(l) == [lvl |-> l, num |-> 0, den |-> 1]

\* _get_boundary(timelist, op), lines 577-590; sign is 1 for x + y, -1 for x - y
_get_boundary(tl, sign) ==
  LET n == Len(tl)
      r == tuner.ratio
      S == Sum(tl)
      Q == n * SumSq(tl) - S * S
  IN  IF n = 0 THEN Huge(1)
      ELSE IF n = 1
      THEN IF r = 0 THEN Finite(S, 1)
           ELSE IF r = 1 THEN Huge(sign)
           ELSE Huge(2 * sign)
      ELSE Finite(S * (n - 1) + sign * r * Q, n * (n - 1))

_get_upper_boundary(tl) == _get_boundary(tl, 1)
_get_lower_boundary(tl) == _get_boundary(tl, -1)

\* x >= y on boundaries
GE(x, y) ==
  IF x.lvl # y.lvl THEN x.lvl > y.lvl
  ELSE IF x.lvl = 0 THEN x.num * y.den >= y.num * x.den
  ELSE TRUE

\* lines 571-575: the pruned configs whose value is not None
Live(d, cs) == SelectSeq(cs, LAMBDA c : c \notin d.failed)

\* lines 598-601: the first config of cs with the least lower boundary
MinLower(d, cs) ==
  LET low(c) == _get_lower_boundary(d.samples[c])
      i == CHOOSE i \in 1..Len(cs) :
             /\ \A j \in 1..Len(cs) : GE(low(cs[j]), low(cs[i]))
             /\ \A j \in 1..(i - 1) : ~GE(low(cs[i]), low(cs[j]))
  IN  cs[i]

\* lines 602-607: all(...) runs over every other entry of the dict in insertion
\* order and stops at the first that is below the upper boundary of c; the
\* value None of a failed entry has no len()
Verdict(d, c) ==
  LET others == SelectSeq(d.order, LAMBDA k : k # c)
      up     == _get_upper_boundary(d.samples[c])
      stop   == {i \in 1..Len(others) :
                   \/ others[i] \in d.failed
                   \/ ~GE(_get_lower_boundary(d.samples[others[i]]), up)}
  IN  IF stop = {} THEN "commit"
      ELSE LET i == CHOOSE i \in stop : \A j \in stop : i <= j
           IN  IF others[i] \in d.failed THEN "TypeError" ELSE "explore"

ConfidenceRun(a, kw) ==
  /\ tuner.policy = "confidence"
  /\ EnterLoop(a, kw)

\* run, lines 567-612: the config of this iteration
ConfidenceChoose ==
  /\ tuner.policy = "confidence"
  /\ pc = "choose"
  /\ IF IsDecided(lcache)
     THEN /\ Chosen(lcache.config, TRUE)
          /\ UNCHANGED <<tcache, lcache>>
     ELSE LET cs == prune_configs(kwargs)
              d  == Touched(lcache, cs)
          IN  IF Live(d, cs) = <<>>
              THEN /\ Raise("ValueError", "min")
                   /\ tcache' = Shared(d)
              ELSE LET c == MinLower(d, Live(d, cs)) IN
                   IF Verdict(d, c) = "TypeError"
                   THEN /\ Raise("TypeError", "_get_boundary")
                        /\ tcache' = Shared(d)
                   ELSE IF Verdict(d, c) = "commit"
                   THEN /\ Chosen(c, TRUE)
                        /\ lcache' = d
                        /\ tcache' = [tcache EXCEPT ![key] = Decided(c)]
                   ELSE /\ Chosen(c, FALSE)
                        /\ lcache' = d
                        /\ tcache' = Shared(d)
  /\ ChooseFrame

ConfidenceLaunch ==
  /\ tuner.policy = "confidence"
  /\ TimedLaunch

NextConfidence ==
  \/ \E a \in ArgSet, kw \in FewKwargSets : ConfidenceRun(a, kw)
  \/ ConfidenceChoose
  \/ ConfidenceLaunch
  \/ EndRun

\* autotune(...)(fn, "confidence"); ratio is 3.0 unless given
InitConfidence ==
  /\ \E s \in LoopSetups, r \in {1, 3} :
       tuner = Tuner("confidence", s.configs, NoHooks, s.prune, r)
  /\ InitCommon

SpecConfidence == InitConfidence /\ [][NextConfidence]_vars

\* The confidence tuner of two candidates with the dictionary of one key as
\* the iterations of lines 636-640 leave it: for each config a list of sample
\* times, or None.  The lists are followed up to MaxSamples samples.
SampleLists == UNION {[1..n -> Times] : n \in 0..MaxSamples}

SampledDicts ==
  {[kind |-> "dict", config |-> NoConfig, order |-> <<1, 2>>,
    samples |-> [c \in ConfigIds |-> IF c = 1 THEN s1 ELSE IF c = 2 THEN s2 ELSE <<>>],
    failed |-> f] :
     s1 \in SampleLists, s2 \in SampleLists, f \in SUBSET {1, 2}}

InitConfidenceSampled ==
  /\ \E r \in {1, 3} : tuner = Tuner("confidence", <<1, 2>>, NoHooks, NoPruning, r)
  /\ \E d \in SampledDicts :
       /\ \A c \in d.failed : d.samples[c] = <<>>
       /\ tcache = [k \in AllKeys |->
                      IF \E a \in OneKeyArgs : k = _get_key(a) THEN d
                      ELSE [EmptyDict EXCEPT !.kind = "absent"]]
  /\ InitRun

\* the launch of the iteration, while the list of the config is followed
ConfidenceLaunchSampled ==
  /\ pc = "launch"
  /\ isconfig \/ Len(lcache.samples[config]) < MaxSamples
  /\ ConfidenceLaunch

NextConfidenceSampled ==
  \/ \E a \in OneKeyArgs, kw \in FewKwargSets : ConfidenceRun(a, kw)
  \/ ConfidenceChoose
  \/ ConfidenceLaunchSampled
  \/ EndRun

SpecConfidenceSampled == InitConfidenceSampled /\ [][NextConfidenceSampled]_vars

(***************************************************************************)
(* EpsilonAutotuner.run                                                    *)
(***************************************************************************)
RECURSIVE GCD(_, _)
GCD(a, b) == IF b = 0 THEN a ELSE GCD(b, a % b)

\* a float of [0, 1] as the fraction n/d in lowest terms
Frac(n, d) == <<n \div GCD(n, d), d \div GCD(n, d)>>
FracZero == <<0, 1>>
FracOne == <<1, 1>>
FracHalf == <<1, 2>>

\* the denominators an epsilon of the model may have
EpsDenCap == 2 ^ MaxDecays

\* sys.float_info.max: above every measured time
FloatMax == MaxTime + 1

\* the candidates and pruning of the epsilon tuners of the model; the last has
\* an early_config_prune that keeps nothing
EpsSetups ==
  {[configs |-> <<1>>, prune |-> NoPruning],
   [configs |-> <<1, 2, 3>>, prune |-> NoPruning],
   [configs |-> <<1>>,
    prune |-> [early_config_prune |-> [set |-> TRUE, keep |-> {2, 3}],
               perf_model |-> NoPerfModel, configs_top_k |-> DefaultTopK]]}

\* self._tcache[key] = (candidate, epsilon, perf)
Triple(c, e, p) == [kind |-> "triple", candidate |-> c, epsilon |-> e, perf |-> p]

\* lines 463-473: the locals candidate, epsilon and perf of an iteration
Locals(k) ==
  IF tcache[k].kind = "triple" THEN tcache[k]
  ELSE Triple(NoConfig, tuner.epsilon, FloatMax)

\* a variant of CanExplore in which the draw can be below any epsilon
CanExploreAlways(e) == TRUE

\* line 465: random.random() < epsilon can be true; random() is in [0, 1)
CanExplore(e) == e[1] > 0
\* line 465: random.random() < epsilon can be false
CanExploit(e) == e[1] < e[2]

\* a variant of Others that keeps the candidate
OthersAndCandidate(c, cs) == cs

\* lines 476-480: the pruned configs that are not the candidate
Others(c, cs) == SelectSeq(cs, LAMBDA x : x # c)

\* a variant of Decayed that multiplies by 1 + decay
DecayedUp(e) ==
  Frac(e[1] * (tuner.decay[2] + tuner.decay[1]), e[2] * tuner.decay[2])

\* line 518: epsilon * (1 - self._decay)
Decayed(e) ==
  Frac(e[1] * (tuner.decay[2] - tuner.decay[1]), e[2] * tuner.decay[2])

\* a variant of Improves that also takes a time equal to the best
ImprovesOrEqual(perf, t) == perf >= t

\* line 513: perf > timecost
Improves(perf, t) == perf > t

\* lines 513-519: the triple stored after an exploring launch that took t
Updated(l, c, t) ==
  IF Improves(l.perf, t)
  THEN Triple(c, tuner.epsilon, t)
  ELSE Triple(l.candidate, Decayed(l.epsilon), l.perf)

\* run, lines 459-461; `key in self._tcache` makes no entry
EpsilonRun(a, kw) ==
  /\ tuner.policy = "epsilon"
  /\ StartRun(a, kw)
  /\ key' = _get_key(a)
  /\ seen' = seen \cup {key'}
  /\ first_run' = (key' \notin seen)
  /\ pc' = "choose"
  /\ UNCHANGED <<tuner, cache, tcache, restore_copies, buf, pruned_configs, config,
                 used_cached_result, lcache, isconfig, failed_ever, is_explore,
                 timecost>>

\* run, lines 463-484: is_explore and the config of this iteration; with no
\* candidate and nothing to pick from, config stays None and line 485 fails
EpsilonChoose ==
  /\ tuner.policy = "epsilon"
  /\ pc = "choose"
  /\ \E ex \in BOOLEAN :
       /\ IF tcache[key].kind = "triple"
          THEN /\ ex => CanExplore(tcache[key].epsilon)
               /\ ~ex => CanExploit(tcache[key].epsilon)
          ELSE ex
       /\ is_explore' = ex
       /\ LET l  == Locals(key)
              cs == IF ex THEN Others(l.candidate, prune_configs(kwargs)) ELSE <<>>
          IN  IF cs # <<>>
              THEN \E c \in Range(cs) : Chosen(c, FALSE) /\ UNCHANGED lcache
              ELSE IF l.candidate = NoConfig
              THEN Raise("AttributeError", "config.pre_hook")
              ELSE Chosen(l.candidate, FALSE) /\ UNCHANGED lcache
  /\ UNCHANGED <<tuner, cache, tcache, restore_copies, buf, kwargs, key,
                 pruned_configs, exc, used_cached_result, benched, launched,
                 launches, kc, kc_result, buf_cloned, last_hook, first_run, seen,
                 failed_ever, timecost>>

\* a variant of Retried that catches nothing
RetriedNever(e) == e = "None"

\* line 499: except OutOfResources
Retried(e) == e = "OutOfResources"

\* line 520: return ret, inside the loop; nothing assigns self.nargs after it
ReturnFromLoop ==
  /\ pc' = "done"
  /\ outcome' = "return"
  /\ UNCHANGED <<nargs, raised_in>>
  /\ DropLocals

\* run, lines 485-520: the launch of the iteration, timed when exploring
EpsilonLaunch ==
  /\ tuner.policy = "epsilon"
  /\ pc = "launch"
  /\ launched' = launched \cup {config}
  /\ launches' = Count(launches)
  /\ IF kwargs \cap all_kwargs(config) # {}
     THEN \* fn.run(*args, **kwargs, **config.all_kwargs()) repeats a keyword
          /\ Raise("TypeError", "launch")
          /\ UNCHANGED <<exc, tcache, timecost>>
     ELSE \/ \* the kernel returns something that is not None
             /\ exc' = "None"
             /\ IF is_explore
                THEN \E t \in Times :
                       /\ timecost' = t
                       /\ tcache' = [tcache EXCEPT ![key] =
                                       Updated(Locals(key), config, t)]
                       /\ tcache'[key].epsilon[2] <= EpsDenCap
                ELSE UNCHANGED <<tcache, timecost>>
             /\ ReturnFromLoop
          \/ \* the kernel returns None: ret is None and the loop goes on
             /\ exc' = "None"
             /\ pc' = "choose"
             /\ UNCHANGED <<nargs, outcome, raised_in, timings, calls, config,
                            lcache, isconfig, tcache, timecost>>
          \/ \E e \in LaunchErrors :
               /\ exc' = e
               /\ UNCHANGED <<tcache, timecost>>
               /\ IF Retried(e)
                  THEN \* lines 499-507: ret = None and the loop goes on
                       /\ pc' = "choose"
                       /\ UNCHANGED <<nargs, outcome, raised_in, timings, calls,
                                      config, lcache, isconfig>>
                  ELSE Raise(e, "launch")
  /\ UNCHANGED <<tuner, cache, restore_copies, buf, kwargs, key, pruned_configs,
                 used_cached_result, benched, kc, kc_result, buf_cloned, last_hook,
                 first_run, seen, failed_ever, is_explore>>

NextEpsilon ==
  \/ \E a \in ArgSet, kw \in FewKwargSets : EpsilonRun(a, kw)
  \/ EpsilonChoose
  \/ EpsilonLaunch
  \/ EndRun

\* autotune(...)(fn, "epsilon"), with epsilon 0 or 1 and decay 0, 0.5 or 1
InitEpsilon ==
  /\ \E s \in EpsSetups, e \in {FracZero, FracOne},
        d \in {FracZero, FracHalf, FracOne} :
       tuner = Tuner("epsilon", s.configs, NoHooks, s.prune, 3)
                 @@ [epsilon |-> e, decay |-> d]
  /\ InitCommon

SpecEpsilon == InitEpsilon /\ [][NextEpsilon]_vars

(***************************************************************************)
(* The stepwise and confidence tuners over a kernel that behaves the same   *)
(* for a config at every launch: self.fn.run raises OutOfResources for the  *)
(* configs of tuner.oor and returns a result that is true for the others.   *)
(***************************************************************************)
\* the launch of the iteration, with what the kernel does for the config
DeterministicLaunch ==
  /\ TimedLaunch
  /\ exc' = IF config \in tuner.oor THEN "OutOfResources" ELSE "None"
  /\ failed_ever'[key] # failed_ever[key] => exc' = "OutOfResources"

\* the steps of a run that has started; the interpreter takes them
RunStep == StepwiseChoose \/ ConfidenceChoose \/ DeterministicLaunch

NextDeterministic ==
  \/ \E a \in ArgSet : StepwiseRun(a, {})
  \/ \E a \in ArgSet : ConfidenceRun(a, {})
  \/ StepwiseChoose
  \/ ConfidenceChoose
  \/ DeterministicLaunch
  \/ EndRun

\* a tuner of either policy and a kernel for which some config launches
InitDeterministic ==
  /\ \E p \in {"stepwise", "confidence"}, s \in LoopSetups, f \in SUBSET ConfigIds :
       tuner = Tuner(p, s.configs, NoHooks, s.prune, 3) @@ [oor |-> f]
  /\ Range(prune_configs({})) \ tuner.oor # {}
  /\ InitCommon

SpecDeterministic ==
  InitDeterministic /\ [][NextDeterministic]_vars /\ WF_vars(RunStep)

(***************************************************************************)
(* BaseAutotuner.warmup, lines 224-236, over tuners built with every kind   *)
(* of prune_configs_by.                                                    *)
(***************************************************************************)
\* early_config_prune: none, or a callback that keeps the configs of a set
EarlyPrunes ==
  {NoEarlyPrune} \cup {[set |-> TRUE, keep |-> K] : K \in SUBSET ConfigIds}
\* perf_model: none, or a model that predicts a time for each config
PerfModels ==
  {NoPerfModel} \cup {[set |-> TRUE, est |-> e] : e \in [ConfigIds -> Times]}
\* top_k: the floats 1/3, 1/2, 2/3 and 1.0, and the integers 0 to 3
TopKs ==
  {[isfloat |-> TRUE, num |-> 1, den |-> 3], [isfloat |-> TRUE, num |-> 1, den |-> 2],
   [isfloat |-> TRUE, num |-> 2, den |-> 3], DefaultTopK}
    \cup {[isfloat |-> FALSE, num |-> n, den |-> 1] : n \in 0..3}

\* warmup: prune, call fn.warmup for every surviving config in order, reset
\* nargs and return the results; an exception of fn.warmup leaves warmup at
\* once, with nargs as it is.  The keyword arguments repeat a keyword of a
\* config whose all_kwargs has it.
Warmup(a, kw) ==
  /\ pc = "idle"
  /\ kwargs' = kw
  /\ pruned_configs' = prune_configs(kw)
  /\ LET cs  == prune_configs(kw)
         dup == {i \in 1..Len(cs) : kw \cap all_kwargs(cs[i]) # {}}
     IN  \/ /\ dup = {}
            /\ launched' = Range(cs)
            /\ outcome' = "return"
            /\ nargs' = NoArgs
            /\ UNCHANGED raised_in
         \/ \E i \in 1..Len(cs) :
              /\ \A j \in 1..(i - 1) : j \notin dup
              /\ launched' = {cs[j] : j \in 1..i}
              /\ outcome' = IF i \in dup THEN "TypeError" ELSE "RuntimeError"
              /\ raised_in' = "warmup"
              /\ nargs' = a
  /\ pc' = "done"
  /\ KeepTuner
  /\ UNCHANGED <<restore_copies, buf, key, timings, config, calls, exc,
                 used_cached_result, lcache, isconfig, benched, launches, kc,
                 kc_result, buf_cloned, last_hook, first_run, is_explore,
                 timecost, seen>>

NextWarmup ==
  \/ \E a \in OneKeyArgs, kw \in FewKwargSets : Warmup(a, kw)
  \/ EndRun

InitWarmup ==
  /\ \E cs \in ConfigLists, e \in EarlyPrunes, m \in PerfModels, k \in TopKs :
       tuner = Tuner("default", cs, NoHooks,
                     [early_config_prune |-> e, perf_model |-> m, configs_top_k |-> k], 3)
  /\ InitCommon

SpecWarmup == InitWarmup /\ [][NextWarmup]_vars


(***************************************************************************)
(* A tuner of any of the three policies.                                   *)
(***************************************************************************)
Init == InitExhaustive \/ InitStepwise \/ InitConfidence

Next ==
  \/ \E a \in ArgSet, kw \in KwargSets : Run(a, kw)
  \/ Bench
  \/ KernelCall
  \/ KcPreHook
  \/ KcRun
  \/ KcPostHook
  \/ DoBenchReturn
  \/ Select
  \/ Launch
  \/ \E a \in ArgSet, kw \in FewKwargSets : StepwiseRun(a, kw)
  \/ StepwiseChoose
  \/ StepwiseLaunch
  \/ \E a \in ArgSet, kw \in FewKwargSets : ConfidenceRun(a, kw)
  \/ ConfidenceChoose
  \/ ConfidenceLaunch
  \/ EndRun

Spec == Init /\ [][Next]_vars

(***************************************************************************)
(* Properties.                                                             *)
(***************************************************************************)
\* where the thread is while a candidate is being benchmarked
BenchPcs == {"bench", "do_bench", "kc_pre_hook", "kc_run", "kc_post_hook"}
\* where an exception that aborts the benchmarking of a run comes from
BenchAborts == {"_bench", "kernel_call", "min"}
NothingCached == [k \in AllKeys |-> NoConfig]

\* C1: under the exhaustive, stepwise and confidence policies, once the cache
\* entry of a key holds a decided Config it never changes again, and every
\* launch of a run under that key, from then on, launches that Config and no
\* other: no step changes a decided entry of cache or _tcache, the launch of a
\* run whose key is decided launches the entry, and no candidate is benchmarked
\* under a key that is decided.
C1_DecidedIsTerminal ==
  [][/\ \A k \in AllKeys :
          /\ cache[k] # NoConfig => cache'[k] = cache[k]
          /\ tcache[k].kind = "config" => tcache'[k] = tcache[k]
     /\ (pc = "launch" /\ key \in AllKeys) =>
          /\ cache[key] # NoConfig => config = cache[key]
          /\ tcache[key].kind = "config" => config = tcache[key].config
     /\ pc \in BenchPcs => cache[key] = NoConfig]_vars

\* a later run of a stepwise tuner, under a key decided by an earlier run, is
\* about to launch the decided Config
C1_Witness ==
  /\ tuner.policy = "stepwise"
  /\ pc = "launch"
  /\ ~first_run
  /\ lcache.kind = "config"
  /\ tcache[key] = lcache
  /\ config = lcache.config

\* C2: under the stepwise and confidence policies, a config that was marked
\* failed for a key is never launched again under that key, in the same run or
\* a later one, and is never the config committed for the key.
C2_FailedNeverUsed ==
  /\ (tuner.policy \in {"stepwise", "confidence"} /\ pc = "launch") =>
        config \notin failed_ever[key]
  /\ \A k \in AllKeys :
        tcache[k].kind = "config" => tcache[k].config \notin failed_ever[k]

\* a run of a stepwise tuner is about to launch the committed config after
\* another config failed under the key
C2_Witness ==
  /\ tuner.policy = "stepwise"
  /\ pc = "launch"
  /\ failed_ever[key] # {}
  /\ tcache[key].kind = "config"
  /\ config = tcache[key].config

C4_CachedIsMinimalMedian ==
  (tuner.policy = "default" /\ pc = "launch" /\ ~used_cached_result) =>
    /\ Len(timings) = Len(pruned_configs)
    /\ config = cache[key]
    /\ \E i \in 1..Len(pruned_configs) :
         /\ pruned_configs[i] = cache[key]
         /\ \A j \in 1..Len(pruned_configs) : timings[i][1] <= timings[j][1]

\* the last of three candidates is stored: the first failed softly and the
\* second was slower
C4_Witness ==
  /\ tuner.policy = "default"
  /\ pc = "launch"
  /\ ~used_cached_result
  /\ Len(timings) = 3
  /\ timings[1] = InfTriple
  /\ timings[2][1] = 2
  /\ timings[3][1] = 1
  /\ cache[key] = pruned_configs[3]

KcExpected ==
  (IF Config(config).pre_hook THEN <<"config.pre_hook">> ELSE <<>>)
    \o <<"pre_hook(reset_only=False)", "fn.run", "post_hook(" \o exc \o ")">>

\* the default post_hook of a tuner with a user pre_hook finds no clones
NoClones ==
  /\ tuner.restore_value # {}
  /\ tuner.user_defined_pre_hook
  /\ ~tuner.user_defined_post_hook

C7_SoftFailure ==
  tuner.policy = "default" =>
    /\ kc_result \in SoftErrors =>
         /\ pc = "bench"
         /\ outcome = "running"
         /\ timings # <<>>
         /\ timings[Len(timings)] = InfTriple
         /\ pruned_configs[Len(timings)] = config
    /\ ~(raised_in = "kernel_call" /\ outcome \in SoftErrors)
    /\ (pc = "launch" /\ ~used_cached_result) =>
         \A c \in Range(pruned_configs) : benched[c] = 1

\* the first candidate failed softly; the second was benchmarked and stored
C7_Witness ==
  /\ tuner.policy = "default"
  /\ pc = "launch"
  /\ ~used_cached_result
  /\ Len(timings) = 2
  /\ timings[1] = InfTriple
  /\ timings[2] # InfTriple
  /\ benched[pruned_configs[2]] = 1
  /\ cache[key] = pruned_configs[2]

\* C8, as the specification states it: a run whose keyword arguments share a
\* name with the kwargs of the candidates ends with ConflictingMetaParameters,
\* also when the tuner has a single candidate.
C8_Original ==
  (/\ tuner.policy = "default"
   /\ pc = "done"
   /\ \A c \in Range(tuner.configs) : kwargs \cap Config(c).kwargs # {}) =>
      outcome = "ConflictingMetaParameters"

DefaultRestore ==
  /\ tuner.policy = "default"
  /\ "B" \in tuner.restore_value
  /\ ~tuner.user_defined_pre_hook
  /\ ~tuner.user_defined_post_hook

\* C10: with a buffer B in restore_value and the default hooks, after every
\* call of the measurement closure, one whose launch raised included, B holds
\* what it held when the pre_hook ran and the sidecar of clones is empty; in
\* between the sidecar holds the clone.
C10_RestoreRoundTrip ==
  DefaultRestore =>
    /\ pc \in {"kc_run", "kc_post_hook"} =>
         /\ restore_copies.set
         /\ restore_copies.copies = [n \in {"B"} |-> buf_cloned]
    /\ kc_result # "-" =>
         /\ buf = buf_cloned
         /\ restore_copies = Cleared

\* a call of the closure whose launch raised has ended: B is 1 as before
C10_Witness ==
  /\ DefaultRestore
  /\ kc_result = "RuntimeError"
  /\ buf_cloned = 1
  /\ buf = 1
  /\ restore_copies = Cleared

\* the tuner zeroes B with its default hooks
DefaultReset ==
  /\ tuner.policy = "default"
  /\ "B" \in tuner.reset_to_zero
  /\ ~tuner.user_defined_pre_hook
  /\ ~tuner.user_defined_post_hook

\* C11: with B in reset_to_zero and the default hooks, on a cache miss of the
\* exhaustive policy the tuner's pre_hook is called in reset_only mode after
\* the best config is cached and before the user-visible launch, and not
\* earlier in the run, so that B is the zero buffer when that launch starts;
\* the reset_only call takes no clones.
C11_ResetBeforeLaunch ==
  DefaultReset =>
    /\ (pc = "launch" /\ ~used_cached_result) =>
         /\ cache[key] # NoConfig
         /\ config = cache[key]
         /\ last_hook = "pre_hook(reset_only=True)"
         /\ buf = 0
         /\ restore_copies.copies = NoCopies
    /\ pc \in BenchPcs => last_hook # "pre_hook(reset_only=True)"

\* the benchmarking of a tuner that zeroes and restores B is over, the winner
\* is cached and B was reset for the launch
C11_Witness ==
  /\ DefaultReset
  /\ "B" \in tuner.restore_value
  /\ pc = "launch"
  /\ ~used_cached_result
  /\ Len(timings) = 2
  /\ last_hook = "pre_hook(reset_only=True)"
  /\ buf = 0
  /\ restore_copies = Cleared

\* two calls whose arguments differ in the dtype of B only
SameButDtype(a, b) == a.N = b.N /\ a.M = b.M /\ a.B # b.B

\* C12: two calls whose arguments are the same except for the dtype of an
\* argument named in arg_names have distinct keys, and their tuning is
\* independent: a step of a run changes the payload of no key but the run's.
C12_KeysIndependent ==
  [][/\ \A a, b \in ArgSet : SameButDtype(a, b) => _get_key(a) # _get_key(b)
     /\ \A k \in AllKeys :
          (cache'[k] # cache[k] \/ tcache'[k] # tcache[k]) => k = key']_vars

\* a stepwise run under the float32 key explores while the float16 key, with
\* the same scalars, is decided
C12_Witness ==
  /\ tuner.policy = "stepwise"
  /\ pc = "launch"
  /\ nargs = [B |-> "float32", N |-> 1, M |-> 1]
  /\ key = <<1, "float32">>
  /\ tcache[key].kind = "dict"
  /\ tcache[<<1, "float16">>].kind = "config"

\* C13, as the specification states it: under every policy nargs holds the
\* bound arguments from the start of run on and is None again once run has
\* returned its result.
C13_Original ==
  /\ (pc \notin {"idle", "done"}) => nargs \in ArgSet
  /\ (pc = "done" /\ outcome = "return") => nargs = NoArgs

\* C14: under the epsilon policy a launch that raises OutOfResources does
\* not leave run and changes nothing of the per-key state (the triple, or
\* its absence): the loop goes on to a fresh choice and nothing about the
\* failure is kept.
C14_EpsilonRetries ==
  [][(tuner.policy = "epsilon" /\ pc = "launch" /\ exc' = "OutOfResources") =>
        /\ tcache' = tcache
        /\ failed_ever' = failed_ever
        /\ pc' = "choose"
        /\ outcome' = "running"]_vars

\* a launch of an epsilon run raised OutOfResources under a key that has a
\* triple, and the loop is about to choose again
C14_Witness ==
  /\ tuner.policy = "epsilon"
  /\ pc = "choose"
  /\ exc = "OutOfResources"
  /\ launches >= 1
  /\ outcome = "running"
  /\ tcache[key].kind = "triple"

\* C15: under the confidence policy with at least two pruned candidates, the
\* step that commits a config for a key finds at least one timing sample
\* recorded in the dictionary of that key.
C15_Original ==
  [][(/\ tuner.policy = "confidence"
      /\ pc = "choose"
      /\ Len(prune_configs(kwargs)) >= 2
      /\ tcache[key].kind = "dict"
      /\ tcache'[key].kind = "config") =>
        \E c \in ConfigIds : tcache[key].samples[c] # <<>>]_vars

\* C16 as stated: of the pruned candidates that share the minimum median the
\* exhaustive policy stores the first in pruned order, whatever their p20 and
\* p80 are.
C16_Original ==
  (tuner.policy = "default" /\ pc = "launch" /\ ~used_cached_result) =>
    \E i \in 1..Len(pruned_configs) :
      /\ pruned_configs[i] = cache[key]
      /\ \A j \in 1..Len(timings) : timings[i][1] <= timings[j][1]
      /\ \A j \in 1..(i - 1) : timings[i][1] < timings[j][1]

\* C16: of the pruned candidates that share the minimum median the exhaustive
\* policy stores the one with the least p20, then the least p80, and the first
\* in pruned order among those whose three timings are all equal.
C16_TieBrokenByQuantiles ==
  (tuner.policy = "default" /\ pc = "launch" /\ ~used_cached_result) =>
    \E i \in 1..Len(pruned_configs) :
      /\ pruned_configs[i] = cache[key]
      /\ \A j \in 1..Len(timings) :
           timings[j][1] = timings[i][1] =>
             \/ timings[i][2] < timings[j][2]
             \/ timings[i][2] = timings[j][2] /\ timings[i][3] < timings[j][3]
             \/ timings[i] = timings[j] /\ i <= j

\* two candidates share the median 2; the second has the smaller p20 and is
\* the one stored
C16_Witness ==
  /\ tuner.policy = "default"
  /\ pc = "launch"
  /\ ~used_cached_result
  /\ Len(timings) = 2
  /\ timings[1] = <<2, 2, 2>>
  /\ timings[2] = <<2, 1, 2>>
  /\ cache[key] = pruned_configs[2]

\* the pruned candidates of the run that the dictionary does not mark failed
LiveOf(d) == {c \in Range(prune_configs(kwargs)) : c \notin d.failed}
\* those of them that have fewer than min_try samples
EligibleOf(d) == {c \in LiveOf(d) : Len(d.samples[c]) < tuner.min_try}
\* the iteration that starts at the choice stores a config and launches it
Commits == pc' = "launch" /\ isconfig' /\ tcache'[key].kind = "config"

C18_ExploresEligibleOnly ==
  tuner.policy = "stepwise" =>
    /\ (pc = "launch" /\ ~isconfig) =>
         /\ config \in Range(prune_configs(kwargs))
         /\ tcache[key].kind = "dict"
         /\ config \notin tcache[key].failed
         /\ Len(tcache[key].samples[config]) < tuner.min_try
    /\ \A k \in AllKeys, c \in ConfigIds : Len(tcache[k].samples[c]) <= tuner.min_try

\* a measured launch is about to run a config short of samples while another
\* config of the key already has its min_try samples
C18_Witness ==
  /\ tuner.policy = "stepwise"
  /\ pc = "launch"
  /\ ~isconfig
  /\ Len(tcache[key].samples[config]) < tuner.min_try
  /\ \E c \in ConfigIds \ {config} : Len(tcache[key].samples[c]) = tuner.min_try

\* C19: a measured launch of a stepwise run that returns normally appends
\* exactly one sample to the list of its config for the key and does not mark
\* the config failed, whatever the kernel returned; the set of failed configs
\* of a key grows only by a launch that raised OutOfResources.
C19_Original ==
  [][(tuner.policy = "stepwise" /\ pc = "launch" /\ ~isconfig) =>
        /\ outcome' = "return" =>
             /\ Len(tcache'[key].samples[config]) =
                  Len(tcache[key].samples[config]) + 1
             /\ config \notin tcache'[key].failed
        /\ tcache'[key].failed # tcache[key].failed =>
             exc' = "OutOfResources"]_vars

\* C20: an exploring launch of an epsilon run that returns, with measured time
\* t on config c, stores (c, initial epsilon, t) when t is strictly less than
\* the best time of the key (sys.float_info.max when the key has no state);
\* otherwise it keeps the candidate and the best time and stores the epsilon
\* of the key multiplied by 1 - decay.
C20_EpsilonUpdate ==
  [][(tuner.policy = "epsilon" /\ pc = "launch" /\ is_explore /\ outcome' = "return") =>
        LET l == Locals(key)
            t == timecost'
            n == tcache'[key]
        IN  /\ n.kind = "triple"
            /\ IF t < l.perf
               THEN /\ n.candidate = config
                    /\ n.epsilon = tuner.epsilon
                    /\ n.perf = t
               ELSE /\ n.candidate = l.candidate
                    /\ n.perf = l.perf
                    /\ n.epsilon[1] * l.epsilon[2] * tuner.decay[2] =
                         l.epsilon[1] * (tuner.decay[2] - tuner.decay[1]) * n.epsilon[2]]_vars

\* epsilon = 1.0, decay = 0.5: the second config holds the best time 1, a
\* launch of the third took 2, and the state is (second config, 0.5, 1)
C20_Witness ==
  /\ tuner.policy = "epsilon"
  /\ tuner.epsilon = FracOne
  /\ tuner.decay = FracHalf
  /\ pc = "done"
  /\ outcome = "return"
  /\ is_explore
  /\ config = 3
  /\ timecost = 2
  /\ tcache[key] = Triple(2, FracHalf, 1)

\* C21: an exploring attempt of an epsilon run launches a pruned config other
\* than the candidate of the key whenever there is one, and the candidate only
\* when there is none; an attempt under a key without state explores; an
\* attempt that does not explore launches the candidate and leaves the state
\* of every key as it was.
C21_EpsilonChoice ==
  [][tuner.policy = "epsilon" =>
       /\ (pc = "choose" /\ tcache[key].kind # "triple") => is_explore'
       /\ (pc = "choose" /\ pc' = "launch" /\ is_explore') =>
            LET rest == Range(prune_configs(kwargs)) \ {Locals(key).candidate}
            IN  IF rest # {} THEN config' \in rest
                ELSE config' = Locals(key).candidate
       /\ (pc = "choose" /\ pc' = "launch" /\ ~is_explore') =>
            config' = tcache[key].candidate
       /\ (pc = "launch" /\ ~is_explore) =>
            /\ config = tcache[key].candidate
            /\ tcache' = tcache]_vars

\* an exploring attempt under a key that has a candidate is about to launch
\* another pruned config
C21_Witness ==
  /\ tuner.policy = "epsilon"
  /\ pc = "launch"
  /\ is_explore
  /\ tcache[key].kind = "triple"
  /\ config # tcache[key].candidate
  /\ config \in Range(prune_configs(kwargs))

\* C22: in an epsilon tuner constructed with epsilon = 0, once a key has a
\* state no attempt for that key explores: it chooses the stored candidate,
\* measures nothing and leaves the state of every key as it was.
C22_ZeroEpsilonStopsExploring ==
  [][(/\ tuner.policy = "epsilon"
      /\ tuner.epsilon = FracZero
      /\ pc \in {"choose", "launch"}
      /\ tcache[key].kind = "triple") =>
        /\ tcache' = tcache
        /\ timecost' = timecost
        /\ pc = "choose" =>
             /\ ~is_explore'
             /\ pc' = "launch"
             /\ config' = tcache[key].candidate
        /\ pc = "launch" => ~is_explore /\ config = tcache[key].candidate]_vars

\* a later run of a tuner with epsilon = 0 returned from a launch of the stored
\* candidate without exploring
C22_Witness ==
  /\ tuner.policy = "epsilon"
  /\ tuner.epsilon = FracZero
  /\ pc = "done"
  /\ outcome = "return"
  /\ ~first_run
  /\ ~is_explore
  /\ tcache[key].kind = "triple"
  /\ config = tcache[key].candidate

\* the iteration that starts at the choice stores config c for the key
CommitsTo(c) ==
  /\ pc' = "launch"
  /\ isconfig'
  /\ config' = c
  /\ tcache'[key] = Decided(c)
\* the iteration that starts at the choice goes on to a measured launch of c
Explores(c) ==
  /\ pc' = "launch"
  /\ ~isconfig'
  /\ config' = c
  /\ tcache'[key].kind = "dict"

AfterEarly ==
  IF tuner.early_config_prune.set
  THEN SelectSeq(tuner.configs, LAMBDA c : c \in tuner.early_config_prune.keep)
  ELSE tuner.configs
\* the top_k in force: the floor of the number of configured candidates times
\* a float top_k of (0, 1], an integer top_k itself
EffectiveTopK ==
  IF tuner.configs_top_k.isfloat
  THEN CHOOSE n \in 0..Len(tuner.configs) :
         /\ n * tuner.configs_top_k.den <= Len(tuner.configs) * tuner.configs_top_k.num
         /\ (n + 1) * tuner.configs_top_k.den > Len(tuner.configs) * tuner.configs_top_k.num
  ELSE tuner.configs_top_k.num
\* the place of config c in the sequence cs
Place(c, cs) == CHOOSE i \in 1..Len(cs) : cs[i] = c
\* c is before d in the order of predicted time, ties in the order of cs
Before(c, d, cs) ==
  \/ tuner.perf_model.est[c] < tuner.perf_model.est[d]
  \/ tuner.perf_model.est[c] = tuner.perf_model.est[d] /\ Place(c, cs) < Place(d, cs)

\* C24: with a perf_model, when more configs are left after early pruning
\* than the top_k in force, the pruner returns exactly top_k of them, those of
\* the smallest predicted times with ties in insertion order; otherwise it
\* returns all of them.
C24_TopK ==
  (pc = "done" /\ tuner.perf_model.set) =>
    IF Len(AfterEarly) > EffectiveTopK
    THEN /\ Len(pruned_configs) = EffectiveTopK
         /\ Range(pruned_configs) \subseteq Range(AfterEarly)
         /\ \A i, j \in 1..Len(pruned_configs) :
              i < j => Before(pruned_configs[i], pruned_configs[j], AfterEarly)
         /\ \A c \in Range(pruned_configs), o \in Range(AfterEarly) \ Range(pruned_configs) :
              Before(c, o, AfterEarly)
    ELSE pruned_configs = AfterEarly

\* three candidates and top_k = 2/3: two survive, the second config by its
\* predicted time, and the first ahead of the third, which it ties with
C24_Witness ==
  /\ pc = "done"
  /\ outcome = "return"
  /\ tuner.configs = <<1, 2, 3>>
  /\ tuner.perf_model.set
  /\ ~tuner.early_config_prune.set
  /\ tuner.perf_model.est = [c \in ConfigIds |-> IF c = 2 THEN 1 ELSE 2]
  /\ tuner.configs_top_k = [isfloat |-> TRUE, num |-> 2, den |-> 3]
  /\ pruned_configs = <<2, 1>>

\* C25: over a kernel that for every config either always launches or always
\* raises OutOfResources, and launches for some pruned config, every run of
\* a stepwise or confidence tuner that has started ends by returning the
\* kernel's result.
C25_Original ==
  (pc = "choose") ~> (pc = "done" /\ outcome = "return")

\* C26: in an epsilon tuner the best time stored for a key never increases,
\* the candidate stored for a key changes only by an exploring launch of the
\* run of that key that measured a time strictly below the best time stored
\* before, and the epsilon stored for a key never exceeds the initial epsilon.
C26_EpsilonMonotone ==
  [][tuner.policy = "epsilon" =>
       \A k \in AllKeys :
         /\ tcache[k].kind = "triple" =>
              /\ tcache'[k].kind = "triple"
              /\ tcache'[k].perf <= tcache[k].perf
              /\ tcache'[k].candidate # tcache[k].candidate =>
                   /\ k = key
                   /\ pc = "launch"
                   /\ is_explore
                   /\ timecost' < tcache[k].perf
                   /\ tcache'[k].perf = timecost'
         /\ tcache'[k].kind = "triple" =>
              tcache'[k].epsilon[1] * tuner.epsilon[2]
                <= tuner.epsilon[1] * tcache'[k].epsilon[2]]_vars

\* an exploring launch that did not beat the best time has just brought the
\* epsilon of the key from 1/2 to 1/4 of the initial 1
C26_Witness ==
  /\ tuner.policy = "epsilon"
  /\ tuner.epsilon = FracOne
  /\ pc = "done"
  /\ outcome = "return"
  /\ is_explore
  /\ tcache[key].kind = "triple"
  /\ tcache[key].epsilon = <<1, 4>>
  /\ timecost >= tcache[key].perf
  /\ config # tcache[key].candidate

\* C27: under the exhaustive policy with more than one candidate, a step of
\* the benchmarking of a miss in which _bench raises on conflicting
\* meta-parameters, or kernel_call ends with an exception that is not a soft
\* failure, ends the run with the cache of every key as it was, the key of
\* the run without an entry and nothing launched; a run that starts under a
\* key without an entry benchmarks from scratch.
C27_AbortCachesNothing ==
  [][(tuner.policy = "default" /\ Len(tuner.configs) > 1) =>
       /\ (\/ pc = "bench" /\ outcome' = "ConflictingMetaParameters"
           \/ pc = "kc_post_hook" /\ kc_result' \notin SoftErrors \cup {"return"}) =>
            /\ pc' = "done"
            /\ outcome' \notin {"return", "running"}
            /\ cache' = cache
            /\ cache'[key] = NoConfig
            /\ launches' = 0
       /\ (pc = "idle" /\ pc' # "idle" /\ cache[key'] = NoConfig) =>
            /\ pc' = "bench"
            /\ ~used_cached_result'
            /\ benched' = NoBench
            /\ timings' = <<>>
            /\ pruned_configs' = prune_configs(kwargs')]_vars

\* a run on a miss was ended by a RuntimeError of a benchmarked launch: its key
\* has no entry, and the entry of another key is in place
C27_Witness ==
  /\ tuner.policy = "default"
  /\ Len(tuner.configs) > 1
  /\ pc = "done"
  /\ outcome = "RuntimeError"
  /\ raised_in = "kernel_call"
  /\ cache[key] = NoConfig
  /\ \E k \in AllKeys \ {key} : cache[k] # NoConfig

====
